---- MODULE Spec2Model ----
(***************************************************************************)
(* A model of src/app.py: the flood-risk monitor.                          *)
(*                                                                         *)
(*   - the subscription registry SUBSCRIPTIONS and the request handlers    *)
(*     (api_stations, api_venues, api_subscribe, api_subs);                *)
(*   - the helpers fetch_current_gage, fetch_30d_daily, risk_from_median;  *)
(*   - notifier_loop, one step per access to shared state.                 *)
(*                                                                         *)
(* Python values.  An optional value is a sequence of length at most one:  *)
(* None is <<>>, and the value x is <<x>>.  Gage heights are integers in   *)
(* quarter feet (0.5 ft = 2, 1.5 ft = 6); history values are even, so the  *)
(* mean of two of them is again an integer.                                *)
(***************************************************************************)
EXTENDS Integers, Sequences, FiniteSets, TLC

VARIABLES
    VENUES,         \* the configured venue list (fixed after start)
    serving,        \* app.run is accepting requests
    SUBSCRIPTIONS,  \* venue id -> sequence of {name, email}
    resp,           \* the response of the request most recently handled
    pc,             \* notifier_loop: "off" | "get" | "venue" | "print" | "sleep"
    vi,             \* notifier_loop: index in VENUES of the venue in hand (0: the
                    \* loop over the venues is not running, or ran to its end)
    stations,       \* notifier_loop: the listing fetched this cycle
    nearest,        \* notifier_loop: index in stations of the nearest one
    events,         \* [NOTIFY] lines printed in this cycle
    report,         \* how this cycle ended: "none" (it has not) | "ok" | "error"
    seenEmpty,      \* venues (indices) whose list was empty at line 171, this cycle
    allDown,        \* every upstream fetch of this cycle's listing failed
    checked,        \* the length line 171 saw, the last time it let a venue through
    arg,            \* pure-function harness: the call
    ret,            \* pure-function harness: its result
    inflight        \* a GET /api/stations being handled: who asked, the station
                    \* the loop of line 103 is at, and its local list `out`

vars == <<VENUES, serving, SUBSCRIPTIONS, resp, pc, vi, stations, nearest,
          events, report, seenEmpty, allDown, checked, arg, ret, inflight>>

sysvars == <<VENUES, serving, SUBSCRIPTIONS, resp, pc, vi, stations, nearest,
             events, report, seenEmpty, allDown, checked>>

notifier_vars == <<pc, vi, stations, nearest, events, report, seenEmpty, allDown,
                   checked>>

-----------------------------------------------------------------------------
(* Python values *)

None == <<>>

Some(x) == <<x>>

Val(o) == o[1]

\* `not x` for an optional string: None and "" are falsy
Falsy(o) == o = None \/ o = Some("")

-----------------------------------------------------------------------------
(* Bounds *)

\* the stations modelled: the last NumStations of the configured five
NumStations == 2

\* subscribers in the registry, all venues together
MaxSubs == 2

\* greatest gage height drawn for risk_from_median, in quarter feet
MaxHeight == 9

\* time series in an upstream response handed to a fetch helper
MaxSeries == 2

\* stations in a listing handed to the nearest-station match
MaxListing == 2

-----------------------------------------------------------------------------
(* Configuration, lines 10-26 *)

ALL_STATIONS == <<"01103500", "01104500", "01104705", "01104710", "01104715">>

STATIONS == SubSeq(ALL_STATIONS, Len(ALL_STATIONS) - NumStations + 1, Len(ALL_STATIONS))

\* a venue: its id, its name and the place (lat, lon) it is configured at
Venue(id, name, site) == [id |-> id, name |-> name, site |-> site]

\* Venue places: "cbi" (42.3599, -71.0731) and "mit_sailing" (42.3573, -71.0953)
\* are the configured ones; "north" (42.3664, -71.0620) and "dam" (42.3688887,
\* -71.0616673, at the gage of station 01104715) are other deployments.
VenueConfigs ==
    { <<Venue("cbi", "Community Boating, Inc. (CBI)", "cbi"),
        Venue("mit_sailing", "MIT Sailing Pavilion", "mit_sailing")>>,
      <<Venue("cbi", "Community Boating, Inc. (CBI)", "north"),
        Venue("mit_sailing", "MIT Sailing Pavilion", "mit_sailing")>>,
      <<Venue("cbi", "Community Boating, Inc. (CBI)", "dam"),
        Venue("mit_sailing", "MIT Sailing Pavilion", "mit_sailing")>> }

\* dist_km (lines 160-163) from a venue place to each configured station, in
\* metres, as the formula evaluates in IEEE doubles.  None: acos is handed an
\* argument above 1 and raises ValueError (math domain error).
DistTable ==
    [ cbi         |-> <<Some(19217), Some(13264), Some(521),  Some(716),  Some(1372)>>,
      mit_sailing |-> <<Some(17604), Some(11490), Some(1476), Some(2286), Some(3049)>>,
      north       |-> <<Some(20380), Some(14118), Some(1442), Some(663),  Some(278)>>,
      dam         |-> <<Some(20569), Some(14135), Some(1577), Some(763),  None>> ]

StationIndex(site) == CHOOSE i \in 1..Len(ALL_STATIONS) : ALL_STATIONS[i] = site

dist_km(station_site, venue_site) == DistTable[venue_site][StationIndex(station_site)]

-----------------------------------------------------------------------------
(* Upstream responses *)

GAGE_CODE == "00065"

\* requests.get + raise_for_status + r.json(): a transport failure, a non-2xx
\* status or a body that is not JSON raises
Down == [ok |-> FALSE, timeSeries |-> <<>>]

Up(series) == [ok |-> TRUE, timeSeries |-> series]

\* One series of the instantaneous-values response: its variable code and its
\* last value: kind "empty" (no values), "bad" (float() raises) or "num".
IvSeries(code, kind, num, time) == [code |-> code, kind |-> kind, num |-> num, time |-> time]

\* One entry of the daily-values response: kind "null" (None or ""), "bad" or "num".
DvEntry(kind, num, date) == [kind |-> kind, num |-> num, date |-> date]

\* One series of the daily-values response; code "" stands for an empty
\* variableCode list, on which [0] raises IndexError.
DvSeries(code, entries) == [code |-> code, entries |-> entries]

-----------------------------------------------------------------------------
(* Helpers, lines 35-95 *)

RECURSIVE CurrentFold(_, _, _)
CurrentFold(series, g, t) ==
    IF series = <<>> THEN [g |-> g, t |-> t]
    ELSE LET s == Head(series) IN
         IF s.code = GAGE_CODE /\ s.kind # "empty"
         THEN IF s.kind = "num"
              THEN CurrentFold(Tail(series), Some(s.num), Some(s.time))
              ELSE CurrentFold(Tail(series), None, t)
         ELSE CurrentFold(Tail(series), g, t)

\* fetch_current_gage: [raised, g, t]
fetch_current_gage(r) ==
    IF ~r.ok THEN [raised |-> TRUE, g |-> None, t |-> None]
    ELSE LET gt == CurrentFold(r.timeSeries, None, None)
         IN  [raised |-> FALSE, g |-> gt.g, t |-> gt.t]

\* the entries of one series: [history, failed]; an entry that does not parse
\* raises, and the entries appended so far stay in history
RECURSIVE EntryFold(_, _)
EntryFold(entries, history) ==
    IF entries = <<>> THEN [history |-> history, failed |-> FALSE]
    ELSE LET e == Head(entries) IN
         IF e.kind = "null" THEN EntryFold(Tail(entries), history)
         ELSE IF e.kind = "bad" THEN [history |-> history, failed |-> TRUE]
         ELSE EntryFold(Tail(entries),
                        Append(history, [date |-> e.date, value |-> e.num]))

RECURSIVE HistoryFold(_, _)
HistoryFold(series, history) ==
    IF series = <<>> THEN history
    ELSE LET s == Head(series) IN
         IF s.code = "" THEN history
         ELSE IF s.code # GAGE_CODE THEN HistoryFold(Tail(series), history)
         ELSE LET f == EntryFold(s.entries, history)
              IN  IF f.failed THEN f.history
                  ELSE HistoryFold(Tail(series), f.history)

\* fetch_30d_daily: [raised, history]
fetch_30d_daily(r) ==
    IF ~r.ok THEN [raised |-> TRUE, history |-> <<>>]
    ELSE [raised |-> FALSE, history |-> HistoryFold(r.timeSeries, <<>>)]

\* statistics.median of a non-empty sequence of numbers
median(values) ==
    LET s == SortSeq(values, LAMBDA a, b : a < b)
        n == Len(s)
    IN  IF n % 2 = 1 THEN s[(n + 1) \div 2]
        ELSE (s[n \div 2] + s[n \div 2 + 1]) \div 2

\* 0.5 ft and 1.5 ft, in quarter feet
LOW_BAND == 2
MEDIUM_BAND == 6

\* the bands read with < where the code has <=
risk_from_median_strict(current, med) ==
    IF current = None \/ med = None THEN "unknown"
    ELSE IF Val(current) < Val(med) + LOW_BAND THEN "low"
    ELSE IF Val(current) < Val(med) + MEDIUM_BAND THEN "medium"
    ELSE "high"

risk_from_median(current, med) ==
    IF current = None \/ med = None THEN "unknown"
    ELSE IF Val(current) <= Val(med) + LOW_BAND THEN "low"
    ELSE IF Val(current) <= Val(med) + MEDIUM_BAND THEN "medium"
    ELSE "high"

-----------------------------------------------------------------------------
(* api_stations, lines 100-126 *)

\* the summary with the median of no values taken to be 0
Reading_zero_median(site, cr, hr) ==
    LET c    == fetch_current_gage(cr)
        cur  == IF c.raised THEN None ELSE c.g
        t    == IF c.raised THEN None ELSE c.t
        h    == fetch_30d_daily(hr)
        hist == IF h.raised THEN <<>> ELSE h.history
        med  == IF hist # <<>>
                THEN Some(median([i \in 1..Len(hist) |-> hist[i].value]))
                ELSE Some(0)
    IN  [site |-> site, gage_height_ft |-> cur, time |-> t, median_30d |-> med,
         history_30d |-> hist, risk |-> risk_from_median(cur, med)]

\* one station's summary from its two upstream responses (lines 104-125)
Reading(site, cr, hr) ==
    LET c    == fetch_current_gage(cr)
        cur  == IF c.raised THEN None ELSE c.g
        t    == IF c.raised THEN None ELSE c.t
        h    == fetch_30d_daily(hr)
        hist == IF h.raised THEN <<>> ELSE h.history
        med  == IF hist # <<>>
                THEN Some(median([i \in 1..Len(hist) |-> hist[i].value]))
                ELSE None
    IN  [site |-> site, gage_height_ft |-> cur, time |-> t, median_30d |-> med,
         history_30d |-> hist, risk |-> risk_from_median(cur, med)]

\* the loop with one try around all of it: the first station whose fetch
\* raises ends the loop, and the listing is what was appended before it
RECURSIVE StationsLoop_abort(_, _, _)
StationsLoop_abort(up, i, out) ==
    IF i > Len(STATIONS) THEN out
    ELSE IF fetch_current_gage(up[i].cur).raised \/ fetch_30d_daily(up[i].hist).raised
    THEN out
    ELSE StationsLoop_abort(up, i + 1,
                            Append(out, Reading(STATIONS[i], up[i].cur, up[i].hist)))

\* the loop over one provider session that a failed call leaves unusable:
\* after a station's call has raised, the later stations' calls raise too
RECURSIVE StationsLoop_shared_session(_, _, _)
StationsLoop_shared_session(up, i, out) ==
    IF i > Len(STATIONS) THEN out
    ELSE LET broken == \E j \in 1..(i - 1) : ~up[j].cur.ok \/ ~up[j].hist.ok
             cr     == IF broken THEN Down ELSE up[i].cur
             hr     == IF broken THEN Down ELSE up[i].hist
         IN  StationsLoop_shared_session(up, i + 1,
                                         Append(out, Reading(STATIONS[i], cr, hr)))

\* lines 102-125: the loop over STATIONS from station i on, out being the
\* summaries appended so far
RECURSIVE StationsLoop(_, _, _)
StationsLoop(up, i, out) ==
    IF i > Len(STATIONS) THEN out
    ELSE StationsLoop(up, i + 1, Append(out, Reading(STATIONS[i], up[i].cur, up[i].hist)))

\* the listing, given the upstream responses of every station
Listing(up) == StationsLoop(up, 1, <<>>)

\* The upstream responses a station draws in the system model: the provider
\* down for both calls, or a 30-day history of median 1.0 ft with a current
\* height on the low band's edge (1.5 ft), on the medium band's edge (2.5 ft)
\* or just above it (2.75 ft).
HistoryFeed == Up(<<DvSeries(GAGE_CODE, <<DvEntry("num", 2, "D1"), DvEntry("num", 6, "D2")>>)>>)

CurrentFeed(h) == Up(<<IvSeries(GAGE_CODE, "num", h, "T1")>>)

StationFeeds ==
    { [cur |-> Down, hist |-> Down] }
    \cup { [cur |-> CurrentFeed(h), hist |-> HistoryFeed] : h \in {6, 10, 11} }

Feeds == [1..Len(STATIONS) -> StationFeeds]

AllDown(up) == \A i \in 1..Len(STATIONS) : up[i].cur = Down /\ up[i].hist = Down

\* The upstream responses a station draws where api_stations is applied as a
\* function: each call on its own down, or answering; the history with the
\* two entries above, or answering with no series at all.
CallFeeds ==
    [cur : {Down, CurrentFeed(6), CurrentFeed(11)}, hist : {Down, HistoryFeed, Up(<<>>)}]

-----------------------------------------------------------------------------
(* api_subscribe, lines 132-142 *)

\* request bodies: the venue id absent, empty, configured or not configured;
\* the email absent, empty or given; the name absent or given
RequestFields ==
    { [name |-> None, email |-> None], [name |-> Some("Ann"), email |-> Some("")],
      [name |-> None, email |-> Some("a@x")], [name |-> Some("Ann"), email |-> Some("a@x")] }

Requests ==
    { [venue_id |-> v, name |-> f.name, email |-> f.email] :
        v \in {None, Some(""), Some("cbi"), Some("mit_sailing"), Some("zoo")},
        f \in RequestFields }

TotalSubs(S) ==
    LET RECURSIVE Sum(_)
        Sum(K) == IF K = {} THEN 0
                  ELSE LET k == CHOOSE x \in K : TRUE IN Len(S[k]) + Sum(K \ {k})
    IN  Sum(DOMAIN S)

\* the handler without the email half of line 137
Subscribe_email_unchecked(S, data) ==
    LET vid    == data.venue_id
        person == [name |-> data.name, email |-> data.email]
    IN  IF Falsy(vid)
        THEN [registry |-> S, status |-> 400,
              json |-> [error |-> "venue_id and email required"]]
        ELSE IF Val(vid) \notin DOMAIN S
        THEN [registry |-> S, status |-> 404, json |-> [error |-> "unknown venue"]]
        ELSE [registry |-> [S EXCEPT ![Val(vid)] = Append(@, person)], status |-> 200,
              json |-> [status |-> "subscribed", venue |-> Val(vid)]]

\* the handler skipping a subscriber the list already holds
Subscribe_dedup(S, data) ==
    LET vid    == data.venue_id
        person == [name |-> data.name, email |-> data.email]
    IN  IF Falsy(vid) \/ Falsy(person.email)
        THEN [registry |-> S, status |-> 400,
              json |-> [error |-> "venue_id and email required"]]
        ELSE IF Val(vid) \notin DOMAIN S
        THEN [registry |-> S, status |-> 404, json |-> [error |-> "unknown venue"]]
        ELSE [registry |-> IF \E n \in 1..Len(S[Val(vid)]) : S[Val(vid)][n] = person
                           THEN S
                           ELSE [S EXCEPT ![Val(vid)] = Append(@, person)],
              status |-> 200, json |-> [status |-> "subscribed", venue |-> Val(vid)]]

\* the handler with SUBSCRIPTIONS.setdefault(vid, []) in place of line 139
Subscribe_setdefault(S, data) ==
    LET vid    == data.venue_id
        person == [name |-> data.name, email |-> data.email]
    IN  IF Falsy(vid) \/ Falsy(person.email)
        THEN [registry |-> S, status |-> 400,
              json |-> [error |-> "venue_id and email required"]]
        ELSE [registry |-> [k \in DOMAIN S \cup {Val(vid)} |->
                              IF k = Val(vid)
                              THEN Append(IF k \in DOMAIN S THEN S[k] ELSE <<>>, person)
                              ELSE S[k]],
              status |-> 200, json |-> [status |-> "subscribed", venue |-> Val(vid)]]

\* the handler assigning the list where line 141 appends to it
Subscribe_overwrite(S, data) ==
    LET vid    == data.venue_id
        person == [name |-> data.name, email |-> data.email]
    IN  IF Falsy(vid) \/ Falsy(person.email)
        THEN [registry |-> S, status |-> 400,
              json |-> [error |-> "venue_id and email required"]]
        ELSE IF Val(vid) \notin DOMAIN S
        THEN [registry |-> S, status |-> 404, json |-> [error |-> "unknown venue"]]
        ELSE [registry |-> [S EXCEPT ![Val(vid)] = <<person>>], status |-> 200,
              json |-> [status |-> "subscribed", venue |-> Val(vid)]]

\* the handler with line 139 ahead of line 137
Subscribe_venue_first(S, data) ==
    LET vid    == data.venue_id
        person == [name |-> data.name, email |-> data.email]
    IN  IF vid = None \/ Val(vid) \notin DOMAIN S
        THEN [registry |-> S, status |-> 404, json |-> [error |-> "unknown venue"]]
        ELSE IF Falsy(vid) \/ Falsy(person.email)
        THEN [registry |-> S, status |-> 400,
              json |-> [error |-> "venue_id and email required"]]
        ELSE [registry |-> [S EXCEPT ![Val(vid)] = Append(@, person)], status |-> 200,
              json |-> [status |-> "subscribed", venue |-> Val(vid)]]

\* the handler's body on registry S: the registry it leaves and its response
Subscribe(S, data) ==
    LET vid    == data.venue_id
        person == [name |-> data.name, email |-> data.email]
    IN  IF Falsy(vid) \/ Falsy(person.email)
        THEN [registry |-> S, status |-> 400,
              json |-> [error |-> "venue_id and email required"]]
        ELSE IF Val(vid) \notin DOMAIN S
        THEN [registry |-> S, status |-> 404, json |-> [error |-> "unknown venue"]]
        ELSE [registry |-> [S EXCEPT ![Val(vid)] = Append(@, person)], status |-> 200,
              json |-> [status |-> "subscribed", venue |-> Val(vid)]]

-----------------------------------------------------------------------------
(* State after the module is loaded, lines 5-26 *)

Idle == [f |-> "none"]

NoRequest == [who |-> "none", i |-> 0, out |-> <<>>]

Init ==
    /\ VENUES \in VenueConfigs
    /\ serving = FALSE
    /\ SUBSCRIPTIONS = [id \in {VENUES[i].id : i \in 1..Len(VENUES)} |-> <<>>]
    /\ resp = [op |-> "none", status |-> 0]
    /\ pc = "off"
    /\ vi = 0
    /\ stations = <<>>
    /\ nearest = 0
    /\ events = <<>>
    /\ report = "none"
    /\ seenEmpty = {}
    /\ allDown = FALSE
    /\ checked = 0
    /\ arg = Idle
    /\ ret = None
    /\ inflight = NoRequest

-----------------------------------------------------------------------------
(* __main__, lines 180-182, and the request handlers *)

\* app.run: the server starts accepting requests; no thread is started
Main ==
    /\ ~serving
    /\ serving' = TRUE
    /\ UNCHANGED <<VENUES, SUBSCRIPTIONS, resp, notifier_vars, arg, ret, inflight>>

\* the body is Listing(up) for the upstream responses up of the moment; the
\* model keeps the sites it lists here, and the whole listing where the
\* notifier is handed it (NotifierGet)
api_stations ==
    /\ serving
    /\ resp' = [op |-> "stations", status |-> 200, json |-> [listing |-> STATIONS]]
    /\ UNCHANGED <<VENUES, serving, SUBSCRIPTIONS, notifier_vars, arg, ret, inflight>>

api_venues ==
    /\ serving
    /\ resp' = [op |-> "venues", status |-> 200, json |-> [venues |-> VENUES]]
    /\ UNCHANGED <<VENUES, serving, SUBSCRIPTIONS, notifier_vars, arg, ret, inflight>>

\* POST /api/subscribe with body data
SubscribeRequest(data) ==
    /\ serving
    /\ LET r == Subscribe(SUBSCRIPTIONS, data) IN
         /\ SUBSCRIPTIONS' = r.registry
         /\ resp' = [op |-> "subscribe", status |-> r.status, json |-> r.json]
         /\ TotalSubs(r.registry) <= MaxSubs
    /\ UNCHANGED <<VENUES, serving, notifier_vars, arg, ret, inflight>>

api_subscribe == \E data \in Requests : SubscribeRequest(data)

api_subs ==
    /\ serving
    /\ resp' = [op |-> "subscriptions", status |-> 200, json |-> [subscriptions |-> SUBSCRIPTIONS]]
    /\ UNCHANGED <<VENUES, serving, SUBSCRIPTIONS, notifier_vars, arg, ret, inflight>>

-----------------------------------------------------------------------------
(* notifier_loop, lines 154-176 *)

\* A caller runs notifier_loop (in a thread of its own): __main__ does not.
NotifierStart ==
    /\ pc = "off"
    /\ pc' = "get"
    /\ UNCHANGED <<VENUES, serving, SUBSCRIPTIONS, resp, vi, stations, nearest,
                   events, report, seenEmpty, allDown, checked, arg, ret, inflight>>

\* a handler for the request's own errors only (except requests.RequestException):
\* any other exception leaves the loop and ends the thread
except_handler_requests_only(e) ==
    IF e \in {"ConnectionError", "Timeout"} THEN "sleep" ELSE "dead"

\* lines 174-176: where the loop goes on exception e raised inside the try
except_handler(e) == "sleep"

\* SUBSCRIPTIONS.get(id, [])
SubscribersOf(id) == IF id \in DOMAIN SUBSCRIPTIONS THEN SUBSCRIPTIONS[id] ELSE <<>>

\* the key of min() raises for some station of the listing
MatchRaises(listing, venue) ==
    \E i \in 1..Len(listing) : dist_km(listing[i].site, venue.site) = None

\* min(stations, key=dist_km): the first station at the least distance
Nearest(listing, venue) ==
    CHOOSE i \in 1..Len(listing) :
        \A j \in 1..Len(listing) :
            LET di == Val(dist_km(listing[i].site, venue.site))
                dj == Val(dist_km(listing[j].site, venue.site))
            IN  di < dj \/ (di = dj /\ i <= j)

\* line 166 on a listing: the index of the station min() returns, or the
\* exception it raises (on an empty listing, or out of the key function)
min_nearest(listing, venue) ==
    IF listing = <<>> \/ MatchRaises(listing, venue)
    THEN [raised |-> Some("ValueError"), index |-> 0]
    ELSE [raised |-> None, index |-> Nearest(listing, venue)]

\* line 168 read as: the risk is not "low"
Elevated_not_low(risk) == risk # "low"

\* line 168
Elevated(risk) == risk \in {"medium", "high"}

\* line 158: the loop requests its own /api/stations.  The request raises when
\* the server is not accepting yet, and when the answer does not arrive within
\* the 20 s timeout (or is not JSON); otherwise it hands the listing over.
NotifierGet ==
    /\ pc = "get"
    /\ \/ /\ ~serving
          /\ pc' = except_handler("ConnectionError")
          /\ report' = "error"
          /\ UNCHANGED <<vi, stations, allDown>>
       \/ /\ serving
          /\ \E up \in Feeds :
               /\ allDown' = AllDown(up)
               /\ \/ /\ pc' = except_handler("Timeout")
                     /\ report' = "error"
                     /\ UNCHANGED <<vi, stations>>
                  \/ /\ stations' = Listing(up)
                     /\ vi' = 1
                     /\ pc' = "venue"
                     /\ UNCHANGED report
    /\ UNCHANGED <<VENUES, serving, SUBSCRIPTIONS, resp, nearest, events,
                   seenEmpty, checked, arg, ret, inflight>>

\* the loop's position after venue i is done: the next venue, or the sleep
\* of line 176 when i was the last
AfterVenue(i) ==
    /\ pc' = IF i < Len(VENUES) THEN "venue" ELSE "sleep"
    /\ vi' = IF i < Len(VENUES) THEN i + 1 ELSE 0
    /\ report' = IF i < Len(VENUES) THEN report ELSE "ok"

\* lines 164-171 for venue vi: the nearest station, its risk, and whether the
\* venue has subscribers
NotifierVenue ==
    /\ pc = "venue"
    /\ LET v == VENUES[vi] IN
       IF stations = <<>> \/ MatchRaises(stations, v)
       THEN /\ pc' = except_handler("ValueError")
            /\ report' = "error"
            /\ UNCHANGED <<vi, nearest, seenEmpty, checked>>
       ELSE LET n == Nearest(stations, v) IN
            IF Elevated(stations[n].risk)
            THEN IF SubscribersOf(v.id) # <<>>
                 THEN /\ pc' = "print"
                      /\ nearest' = n
                      /\ checked' = Len(SubscribersOf(v.id))
                      /\ UNCHANGED <<vi, report, seenEmpty>>
                 ELSE /\ seenEmpty' = seenEmpty \cup {vi}
                      /\ AfterVenue(vi)
                      /\ UNCHANGED <<nearest, checked>>
            ELSE /\ AfterVenue(vi)
                 /\ UNCHANGED <<nearest, seenEmpty, checked>>
    /\ UNCHANGED <<VENUES, serving, SUBSCRIPTIONS, resp, stations, events,
                   allDown, arg, ret, inflight>>

\* the event counting the subscribers of every venue
Notification_total(v, risk, subs) ==
    [venueId |-> v.id, venueName |-> v.name, risk |-> risk,
     subscriberCount |-> TotalSubs(SUBSCRIPTIONS)]

\* the event of line 172
Notification(v, risk, subs) ==
    [venueId |-> v.id, venueName |-> v.name, risk |-> risk, subscriberCount |-> Len(subs)]

\* line 172: the [NOTIFY] line, with the length the list has now
NotifierPrint ==
    /\ pc = "print"
    /\ events' = Append(events, Notification(VENUES[vi], stations[nearest].risk,
                                             SubscribersOf(VENUES[vi].id)))
    /\ nearest' = 0
    /\ AfterVenue(vi)
    /\ UNCHANGED <<VENUES, serving, SUBSCRIPTIONS, resp, stations, seenEmpty,
                   allDown, checked, arg, ret, inflight>>

\* line 176: the sleep ends and the next cycle begins
NotifierSleep ==
    /\ pc = "sleep"
    /\ pc' = "get"
    /\ vi' = 0
    /\ stations' = <<>>
    /\ events' = <<>>
    /\ seenEmpty' = {}
    /\ allDown' = FALSE
    /\ checked' = 0
    /\ report' = "none"
    /\ UNCHANGED <<VENUES, serving, SUBSCRIPTIONS, resp, nearest, arg, ret, inflight>>

Notifier == NotifierGet \/ NotifierVenue \/ NotifierPrint \/ NotifierSleep

Handlers == api_stations \/ api_venues \/ api_subscribe \/ api_subs

-----------------------------------------------------------------------------
(* Specifications *)

\* the module with its scheduler run by a caller
Next == Main \/ Handlers \/ NotifierStart \/ Notifier

Spec == Init /\ [][Next]_vars

\* the same, the scheduler's thread being scheduled
LiveSpec == Spec /\ WF_vars(Notifier)

\* the process as __main__ starts it: nothing calls notifier_loop
MainNext == Main \/ Handlers

MainSpec == Init /\ [][MainNext]_vars /\ WF_vars(Main) /\ WF_vars(Notifier)

-----------------------------------------------------------------------------
(* api_stations step by step, lines 100-126: one request being handled while
   other requests are served.  The handler's list `out` is a local of the
   request; what a reader is handed is the response of line 126. *)

\* the upstream responses a station draws here: down for both calls, or a
\* height of 2.75 ft over a history of median 1.0 ft
RefreshFeeds ==
    { [cur |-> Down, hist |-> Down], [cur |-> CurrentFeed(11), hist |-> HistoryFeed] }

RefreshInit ==
    /\ VENUES = CHOOSE c \in VenueConfigs : c[1].site = "cbi"
    /\ serving = FALSE
    /\ SUBSCRIPTIONS = [id \in {VENUES[i].id : i \in 1..Len(VENUES)} |-> <<>>]
    /\ resp = [op |-> "none", status |-> 0]
    /\ pc = "off"
    /\ vi = 0
    /\ stations = <<>>
    /\ nearest = 0
    /\ events = <<>>
    /\ report = "none"
    /\ seenEmpty = {}
    /\ allDown = FALSE
    /\ checked = 0
    /\ arg = Idle
    /\ ret = None
    /\ inflight = NoRequest

\* a client, or the notifier at line 158, sends GET /api/stations; line 102
StationsRequest(who) ==
    /\ serving
    /\ inflight = NoRequest
    /\ who = "notifier" => pc = "get"
    /\ inflight' = [who |-> who, i |-> 1, out |-> <<>>]
    /\ UNCHANGED <<sysvars, arg, ret>>

\* lines 103-125 for the station the loop is at
StationsStation ==
    /\ inflight.who # "none"
    /\ inflight.i <= Len(STATIONS)
    /\ \E f \in RefreshFeeds :
         inflight' = [inflight EXCEPT
                        !.out = Append(@, Reading(STATIONS[inflight.i], f.cur, f.hist)),
                        !.i = @ + 1]
    /\ UNCHANGED <<sysvars, arg, ret>>

\* the handler returning from inside the loop
Returnable_any_time(r) == TRUE

\* line 126 is after the loop
Returnable(r) == r.i > Len(STATIONS)

\* line 126: the response goes to whoever asked; the notifier goes on to its
\* loop over the venues with it (line 164)
StationsReturn ==
    /\ inflight.who # "none"
    /\ Returnable(inflight)
    /\ inflight' = NoRequest
    /\ IF inflight.who = "notifier"
       THEN /\ stations' = inflight.out
            /\ vi' = 1
            /\ pc' = "venue"
            /\ UNCHANGED resp
       ELSE /\ resp' = [op |-> "stations", status |-> 200,
                        json |-> [listing |-> inflight.out]]
            /\ UNCHANGED <<stations, vi, pc>>
    /\ UNCHANGED <<VENUES, serving, SUBSCRIPTIONS, nearest, events, report,
                   seenEmpty, allDown, checked, arg, ret>>

RefreshNext ==
    \/ Main
    \/ NotifierStart
    \/ \E who \in {"client", "notifier"} : StationsRequest(who)
    \/ StationsStation
    \/ StationsReturn
    \/ api_subscribe
    \/ api_subs

RefreshSpec == RefreshInit /\ [][RefreshNext]_vars

-----------------------------------------------------------------------------
(* The pure functions, applied to arguments drawn from bounded sets *)

Heights == 0..MaxHeight

OptHeights == {None} \cup {Some(h) : h \in Heights}

RiskCalls == [f : {"risk_from_median"}, current : OptHeights, median : OptHeights]

\* api_stations on upstream responses up, and again with station `fail`
\* down for both of its calls
\* all sequences over S of length at most n
RECURSIVE SeqsUpTo(_, _)
SeqsUpTo(S, n) ==
    IF n = 0 THEN {<<>>}
    ELSE LET shorter == SeqsUpTo(S, n - 1)
         IN  shorter \cup {Append(q, x) : q \in {p \in shorter : Len(p) = n - 1}, x \in S}

OTHER_CODE == "00060"

\* instantaneous-values responses: the provider down, or up to MaxSeries
\* series, each with the gage-height code or another, and a last value that
\* is missing, does not parse, or is 1.0 ft read at time T1 or T2
IvResponses ==
    {Down} \cup
    {Up(q) : q \in SeqsUpTo({IvSeries(c, k, 4, t) : c \in {GAGE_CODE, OTHER_CODE},
                                                     k \in {"empty", "bad", "num"},
                                                     t \in {"T1", "T2"}}, MaxSeries)}

CurrentCalls == [f : {"fetch_current_gage"}, r : IvResponses]

\* daily-values responses: the provider down, or up to MaxSeries series, each
\* with the gage-height code, another code or an empty code list, and
\* entries that are numbers, null, or do not parse
DvEntryLists ==
    { <<>>,
      <<DvEntry("num", 2, "D1")>>,
      <<DvEntry("null", 0, "D1"), DvEntry("num", 6, "D2")>>,
      <<DvEntry("num", 2, "D1"), DvEntry("bad", 0, "D2")>>,
      <<DvEntry("bad", 0, "D1"), DvEntry("num", 6, "D2")>> }

DvResponses ==
    {Down} \cup
    {Up(q) : q \in SeqsUpTo({DvSeries(c, e) : c \in {GAGE_CODE, OTHER_CODE, ""},
                                               e \in DvEntryLists}, MaxSeries)}

HistoryCalls == [f : {"fetch_30d_daily"}, r : DvResponses]

\* line 166 on a listing of up to MaxListing stations (of the configured
\* five, in any order, repeats included) and a venue at one of the places
NearestCalls ==
    [f : {"nearest"},
     listing : SeqsUpTo({[site |-> ALL_STATIONS[i]] : i \in 1..Len(ALL_STATIONS)}, MaxListing),
     venue : {Venue("v", "V", p) : p \in DOMAIN DistTable}]

SubscribeCalls == [f : {"api_subscribe"}, data : Requests]

StationsCalls ==
    [f : {"api_stations"}, up : [1..Len(STATIONS) -> CallFeeds], fail : 1..Len(STATIONS)]

WithDown(up, j) == [up EXCEPT ![j] = [cur |-> Down, hist |-> Down]]

PureInit ==
    /\ VENUES = CHOOSE c \in VenueConfigs : c[1].site = "cbi"
    /\ serving = FALSE
    /\ SUBSCRIPTIONS = [id \in {VENUES[i].id : i \in 1..Len(VENUES)} |-> <<>>]
    /\ resp = [op |-> "none", status |-> 0]
    /\ pc = "off"
    /\ vi = 0
    /\ stations = <<>>
    /\ nearest = 0
    /\ events = <<>>
    /\ report = "none"
    /\ seenEmpty = {}
    /\ allDown = FALSE
    /\ checked = 0
    /\ arg \in RiskCalls \cup StationsCalls \cup CurrentCalls \cup HistoryCalls
               \cup NearestCalls \cup SubscribeCalls
    /\ ret = None
    /\ inflight = NoRequest

Call_risk_from_median ==
    /\ arg.f = "risk_from_median"
    /\ ret = None
    /\ ret' = Some(risk_from_median(arg.current, arg.median))
    /\ UNCHANGED <<sysvars, arg, inflight>>

Call_api_stations ==
    /\ arg.f = "api_stations"
    /\ ret = None
    /\ ret' = Some([listing |-> Listing(arg.up),
                    sibling |-> Listing(WithDown(arg.up, arg.fail))])
    /\ UNCHANGED <<sysvars, arg, inflight>>

Call_fetch_current_gage ==
    /\ arg.f = "fetch_current_gage"
    /\ ret = None
    /\ ret' = Some(fetch_current_gage(arg.r))
    /\ UNCHANGED <<sysvars, arg, inflight>>

Call_fetch_30d_daily ==
    /\ arg.f = "fetch_30d_daily"
    /\ ret = None
    /\ ret' = Some(fetch_30d_daily(arg.r))
    /\ UNCHANGED <<sysvars, arg, inflight>>

\* lines 166 and 174-176: the match, and where the loop is after it
Call_nearest ==
    /\ arg.f = "nearest"
    /\ ret = None
    /\ LET m == min_nearest(arg.listing, arg.venue) IN
         ret' = Some([raised |-> m.raised, index |-> m.index,
                      pc |-> IF m.raised = None THEN "venue"
                             ELSE except_handler(Val(m.raised))])
    /\ UNCHANGED <<sysvars, arg, inflight>>

\* lines 134-142 on the registry as the module leaves it
Call_api_subscribe ==
    /\ arg.f = "api_subscribe"
    /\ ret = None
    /\ ret' = Some(Subscribe(SUBSCRIPTIONS, arg.data))
    /\ UNCHANGED <<sysvars, arg, inflight>>

PureNext ==
    \/ Call_risk_from_median
    \/ Call_api_stations
    \/ Call_fetch_current_gage
    \/ Call_fetch_30d_daily
    \/ Call_nearest
    \/ Call_api_subscribe

PureSpec == PureInit /\ [][PureNext]_vars

-----------------------------------------------------------------------------
(* Vocabulary of the properties *)

ConfiguredIds == {VENUES[i].id : i \in 1..Len(VENUES)}

IsPrefix(s, t) == Len(s) <= Len(t) /\ SubSeq(t, 1, Len(s)) = s

Risks == {"unknown", "low", "medium", "high"}

\* a request names a configured venue and gives an email
Valid(data) ==
    /\ ~Falsy(data.venue_id)
    /\ ~Falsy(data.email)
    /\ Val(data.venue_id) \in ConfiguredIds

\* the [NOTIFY] events among evts for venue k
EventsOf(evts, k) == {n \in 1..Len(evts) : evts[n].venueId = VENUES[k].id}

\* the loop reached venue k in the cycle that has just ended
Processed(k) == report = "ok" \/ k <= vi

\* the cycle has just ended and had a listing to work on
CycleEnds == pc # "sleep" /\ pc' = "sleep" /\ stations' # <<>>

-----------------------------------------------------------------------------
(* C9 *)

\* C9: risk_from_median returns one of the four labels: "unknown" when either
\* argument is absent, else "low" up to and including median + 0.5, "medium"
\* above that up to and including median + 1.5, "high" above.
C9_ClassifyBands ==
    (arg.f = "risk_from_median" /\ ret # None) =>
        LET c == arg.current
            m == arg.median
            r == Val(ret)
        IN  /\ r \in Risks
            /\ (c = None \/ m = None) => r = "unknown"
            /\ (c # None /\ m # None) =>
                 /\ Val(c) <= Val(m) + 2 => r = "low"
                 /\ (Val(m) + 2 < Val(c) /\ Val(c) <= Val(m) + 6) => r = "medium"
                 /\ Val(c) > Val(m) + 6 => r = "high"

\* a height exactly 1.5 ft above the median has been classified
C9_Witness ==
    /\ arg.f = "risk_from_median"
    /\ arg.current # None /\ arg.median # None
    /\ Val(arg.current) = Val(arg.median) + 6
    /\ ret = Some("medium")

-----------------------------------------------------------------------------
(* C5 - C8: the subscription registry *)

\* C5 as stated: a subscribe with an absent or empty email is answered 400
\* (InvalidInput), one with a venue id that is not a configured venue is
\* answered 404 (UnknownVenue), and neither changes the registry.
C5_AsStated ==
    [][\A data \in Requests : SubscribeRequest(data) =>
         /\ Falsy(data.email) =>
              resp'.status = 400 /\ SUBSCRIPTIONS' = SUBSCRIPTIONS
         /\ (~Falsy(data.email) /\ (data.venue_id = None
                                   \/ Val(data.venue_id) \notin ConfiguredIds)) =>
              resp'.status = 404 /\ SUBSCRIPTIONS' = SUBSCRIPTIONS]_<<SUBSCRIPTIONS, resp>>

\* C5, amended: a subscribe with an absent or empty email, or an absent or
\* empty venue id, is answered 400 (InvalidInput); one with a non-empty venue
\* id that is not a configured venue, and an email, is answered 404
\* (UnknownVenue); neither changes the registry.
C5_FailuresLeaveRegistry ==
    [][\A data \in Requests : SubscribeRequest(data) =>
         /\ (Falsy(data.email) \/ Falsy(data.venue_id)) =>
              resp'.status = 400 /\ SUBSCRIPTIONS' = SUBSCRIPTIONS
         /\ (~Falsy(data.email) /\ ~Falsy(data.venue_id)
              /\ Val(data.venue_id) \notin ConfiguredIds) =>
              resp'.status = 404 /\ SUBSCRIPTIONS' = SUBSCRIPTIONS]_<<SUBSCRIPTIONS, resp>>

\* a subscribe to an unknown venue has been refused while the registry held
\* a subscriber
C5_Witness ==
    /\ resp.op = "subscribe" /\ resp.status = 404
    /\ \E id \in DOMAIN SUBSCRIPTIONS : SUBSCRIPTIONS[id] # <<>>

\* C6: a subscribe with valid input succeeds; a successful subscribe appends
\* the one entry {name, email} at the end of that venue's list, answers with
\* the venue id and leaves the other lists as they were, also when the list
\* already holds an equal entry.
C6_SubscribeAppends ==
    [][\A data \in Requests : (SubscribeRequest(data) /\ (Valid(data) \/ resp'.status = 200)) =>
         /\ Valid(data)
         /\ resp'.status = 200
         /\ resp'.json = [status |-> "subscribed", venue |-> Val(data.venue_id)]
         /\ DOMAIN SUBSCRIPTIONS' = DOMAIN SUBSCRIPTIONS
         /\ \A id \in DOMAIN SUBSCRIPTIONS :
              SUBSCRIPTIONS'[id] =
                IF id = Val(data.venue_id)
                THEN Append(SUBSCRIPTIONS[id], [name |-> data.name, email |-> data.email])
                ELSE SUBSCRIPTIONS[id]]_<<SUBSCRIPTIONS, resp>>

\* the same valid input was subscribed twice: the list holds it twice
C6_Witness ==
    /\ resp.op = "subscribe" /\ resp.status = 200
    /\ Len(SUBSCRIPTIONS[resp.json.venue]) = 2
    /\ SUBSCRIPTIONS[resp.json.venue][1] = SUBSCRIPTIONS[resp.json.venue][2]

\* C7: the registry's keys are the configured venue ids, in every state; no
\* list holds an entry before the server accepts requests.
C7_KeysAreVenues ==
    /\ DOMAIN SUBSCRIPTIONS = ConfiguredIds
    /\ ~serving => \A id \in DOMAIN SUBSCRIPTIONS : SUBSCRIPTIONS[id] = <<>>

\* a subscribe to an unknown venue was refused, a subscriber is registered
\* and a notify cycle has run to its end
C7_Witness ==
    /\ resp.op = "subscribe" /\ resp.status = 404
    /\ \E id \in DOMAIN SUBSCRIPTIONS : SUBSCRIPTIONS[id] # <<>>
    /\ pc = "sleep" /\ report = "ok"

\* C8: in every step, each venue's list before the step is a prefix of its
\* list after it, and the list changes only in a successful subscribe to
\* that venue.
C8_ListsOnlyGrow ==
    [][\A id \in DOMAIN SUBSCRIPTIONS :
         /\ id \in DOMAIN SUBSCRIPTIONS'
         /\ IsPrefix(SUBSCRIPTIONS[id], SUBSCRIPTIONS'[id])
         /\ SUBSCRIPTIONS'[id] # SUBSCRIPTIONS[id] =>
              /\ \E data \in Requests : SubscribeRequest(data) /\ Valid(data)
              /\ resp' = [op |-> "subscribe", status |-> 200,
                          json |-> [status |-> "subscribed", venue |-> id]]]_vars

\* a venue with two subscribers has been notified
C8_Witness ==
    \E n \in 1..Len(events) :
        /\ Len(SUBSCRIPTIONS[events[n].venueId]) = 2
        /\ events[n].subscriberCount = 2

-----------------------------------------------------------------------------
(* C1 - C4, C10: the scheduler *)

C2_CyclesRecur == []<>(pc = "get")

\* C3: an error raised inside a cycle is reported and leaves the loop at its
\* sleep; from every state of the running loop the sleep is reached, and
\* from the sleep the next cycle begins.
C3_NextCycleBegins ==
    /\ [](report = "error" => pc = "sleep")
    /\ (pc # "off") ~> (pc = "sleep")
    /\ (pc = "sleep") ~> (pc = "get")

\* a cycle that had its listing met an error while matching a venue, and the
\* loop is at its sleep
C3_Witness == pc = "sleep" /\ report = "error" /\ stations # <<>>

\* C4: when a cycle that had a listing has ended, the loop has reached every
\* venue, whatever happened to the others, and every venue it could match
\* whose station's risk is medium or high was notified or had no subscriber.
C4_VenuesIsolated ==
    (pc = "sleep" /\ stations # <<>>) =>
        \A k \in 1..Len(VENUES) :
            /\ Processed(k)
            /\ (~MatchRaises(stations, VENUES[k])
                  /\ Elevated(stations[Nearest(stations, VENUES[k])].risk)) =>
                 (EventsOf(events, k) # {} \/ k \in seenEmpty)

\* C10: in a cycle whose upstream fetches all failed, every station of the
\* listing has risk "unknown" and no event is printed.
C10_AllDownNotifiesNobody ==
    allDown =>
        /\ events = <<>>
        /\ \A i \in 1..Len(stations) : stations[i].risk = "unknown"

\* a cycle whose fetches all failed ran over every venue, each venue having
\* a subscriber
C10_Witness ==
    /\ allDown /\ pc = "sleep" /\ report = "ok"
    /\ \A id \in DOMAIN SUBSCRIPTIONS : SUBSCRIPTIONS[id] # <<>>

\* C19: between the check of line 171 that lets a venue through and the
\* event of line 172, the venue's list holds at least the one or more entries
\* the check saw; the event's count is at least 1, at least what the check
\* saw, and at most the length of the list when the event is printed.
C19_CountWithinCheckAndPrint ==
    /\ [](pc = "print" =>
            /\ checked >= 1
            /\ Len(SUBSCRIPTIONS[VENUES[vi].id]) >= checked)
    /\ [][(pc = "print" /\ pc' # "print") =>
            LET e  == events'[Len(events')]
                id == VENUES[vi].id
            IN  /\ Len(events') = Len(events) + 1
                /\ e.venueId = id
                /\ e.subscriberCount >= 1
                /\ e.subscriberCount >= checked
                /\ e.subscriberCount <= Len(SUBSCRIPTIONS[id])
                /\ e.subscriberCount <= Len(SUBSCRIPTIONS'[id])]_vars

\* a subscribe arrived between the check, which saw one subscriber, and the
\* event, which counts two
C19_Witness ==
    /\ pc # "print" /\ events # <<>>
    /\ checked = 1
    /\ events[Len(events)].subscriberCount = 2

-----------------------------------------------------------------------------
(* C11, C12, C15: the station listing *)

ReadingFields == {"site", "gage_height_ft", "time", "median_30d", "history_30d", "risk"}

\* C11: whatever each station's two fetches did, the listing holds one summary
\* per configured station, in the configured order; a station whose current
\* fetch raised has no height, no time and risk "unknown", and one whose
\* history fetch raised has an empty history, no median and risk "unknown".
C11_OnePerStation ==
    (arg.f = "api_stations" /\ ret # None) =>
        LET L == Val(ret).listing IN
        /\ Len(L) = Len(STATIONS)
        /\ \A i \in 1..Len(STATIONS) :
             /\ L[i].site = STATIONS[i]
             /\ DOMAIN L[i] = ReadingFields
             /\ L[i].risk \in Risks
             /\ ~arg.up[i].cur.ok =>
                  L[i].gage_height_ft = None /\ L[i].time = None /\ L[i].risk = "unknown"
             /\ ~arg.up[i].hist.ok =>
                  L[i].history_30d = <<>> /\ L[i].median_30d = None /\ L[i].risk = "unknown"

\* the first station's fetches both failed, the last one's succeeded, and the
\* listing holds both
C11_Witness ==
    /\ arg.f = "api_stations" /\ ret # None
    /\ arg.up[1] = [cur |-> Down, hist |-> Down]
    /\ arg.up[Len(STATIONS)] = [cur |-> CurrentFeed(11), hist |-> HistoryFeed]
    /\ Val(ret).listing[1].risk = "unknown"
    /\ Val(ret).listing[Len(STATIONS)].risk = "high"

\* C12: within one listing, a station's summary is the one its own two
\* upstream responses give, whatever the other stations' responses are: with
\* another station's calls both failing instead, the listing still has every
\* station and this station's summary is the same.
C12_SiblingsUntouched ==
    (arg.f = "api_stations" /\ ret # None) =>
        LET L == Val(ret).listing
            M == Val(ret).sibling
        IN  /\ Len(M) = Len(STATIONS)
            /\ M[arg.fail].risk = "unknown"
            /\ \A i \in 1..Len(STATIONS) :
                 /\ L[i] = Reading(STATIONS[i], arg.up[i].cur, arg.up[i].hist)
                 /\ i # arg.fail => M[i] = L[i]

\* the first station's fetches succeeded in one listing and failed in the
\* other; the last station is at "high" in both
C12_Witness ==
    /\ arg.f = "api_stations" /\ ret # None
    /\ arg.fail = 1 /\ Len(STATIONS) > 1
    /\ Val(ret).listing[1].risk = "low"
    /\ Val(ret).sibling[1].risk = "unknown"
    /\ Val(ret).listing[Len(STATIONS)].risk = "high"
    /\ Val(ret).sibling[Len(STATIONS)].risk = "high"

\* C15: a station whose history is empty has no median (not 0) and risk
\* "unknown", whatever its current height; a station with a history has the
\* median of its values.
C15_EmptyHistoryNoMedian ==
    (arg.f = "api_stations" /\ ret # None) =>
        \A i \in 1..Len(STATIONS) :
            LET s == Val(ret).listing[i]
                h == s.history_30d
            IN  /\ h = <<>> => (s.median_30d = None /\ s.risk = "unknown")
                /\ h # <<>> => s.median_30d = Some(median([n \in 1..Len(h) |-> h[n].value]))

\* the provider answered a station's history request with no series, and its
\* current request with a height: the summary has the height and no median
C15_Witness ==
    /\ arg.f = "api_stations" /\ ret # None
    /\ \E i \in 1..Len(STATIONS) :
         /\ arg.up[i] = [cur |-> CurrentFeed(11), hist |-> Up(<<>>)]
         /\ Val(ret).listing[i].gage_height_ft = Some(11)
         /\ Val(ret).listing[i].median_30d = None
         /\ Val(ret).listing[i].risk = "unknown"

\* a listing with one whole summary for every configured station
CompleteListing(L) ==
    /\ Len(L) = Len(STATIONS)
    /\ \A i \in 1..Len(STATIONS) :
         /\ DOMAIN L[i] = ReadingFields
         /\ L[i].site = STATIONS[i]
         /\ L[i].history_30d = <<>> <=> L[i].median_30d = None
         /\ L[i].risk = risk_from_median(L[i].gage_height_ft, L[i].median_30d)

\* a subscriber record as a request gave it
WholeRecord(rec) ==
    /\ DOMAIN rec = {"name", "email"}
    /\ \E data \in Requests :
         Valid(data) /\ rec = [name |-> data.name, email |-> data.email]

\* C18: while a listing is being computed and subscribes are served, the
\* listing a client or the notifier has been handed is complete (one whole
\* summary per configured station, none missing), and every record in the
\* registry, and in a registry dump handed to a client, has the name and the
\* email a subscribe gave.
C18_NoTornReads ==
    /\ resp.op = "stations" => CompleteListing(resp.json.listing)
    /\ pc = "venue" => CompleteListing(stations)
    /\ \A id \in DOMAIN SUBSCRIPTIONS : \A n \in 1..Len(SUBSCRIPTIONS[id]) :
         WholeRecord(SUBSCRIPTIONS[id][n])
    /\ resp.op = "subscriptions" =>
         \A id \in DOMAIN resp.json.subscriptions :
             \A n \in 1..Len(resp.json.subscriptions[id]) :
                 WholeRecord(resp.json.subscriptions[id][n])

\* a client holds a listing, the notifier holds another, a third is being
\* computed with one station done, and a subscriber has registered
C18_Witness ==
    /\ resp.op = "stations"
    /\ pc = "venue" /\ stations # resp.json.listing
    /\ inflight.who = "client" /\ Len(inflight.out) = 1
    /\ \E id \in DOMAIN SUBSCRIPTIONS : SUBSCRIPTIONS[id] # <<>>

-----------------------------------------------------------------------------
(* C13, C14: the fetch helpers *)

\* the series of response r that carry the gage-height code
TargetSeries(r) == {k \in 1..Len(r.timeSeries) : r.timeSeries[k].code = GAGE_CODE}

\* C13: fetch_current_gage does not raise; it returns a time only together
\* with a height; and it returns neither when the provider is down, when no
\* series of the response carries the gage-height code, or when the last
\* value of a series that carries it does not parse.
C13_CurrentAbsorbsFailures ==
    (arg.f = "fetch_current_gage" /\ ret # None) =>
        LET r == arg.r
            o == Val(ret)
        IN  /\ ~o.raised
            /\ o.g = None => o.t = None
            /\ (~r.ok \/ TargetSeries(r) = {}
                  \/ \E k \in TargetSeries(r) : r.timeSeries[k].kind = "bad") =>
                 o.g = None /\ o.t = None

\* a parse failure in some entry of the daily-values response, as the code
\* meets it: an empty code list, or an entry that is not a number in a series
\* with the gage-height code
DvParseFailure(r) ==
    \E k \in 1..Len(r.timeSeries) :
        \/ r.timeSeries[k].code = ""
        \/ /\ r.timeSeries[k].code = GAGE_CODE
           /\ \E n \in 1..Len(r.timeSeries[k].entries) :
                r.timeSeries[k].entries[n].kind = "bad"

\* C14: fetch_30d_daily does not raise, and returns the empty history when
\* the provider is down, when no series carries the gage-height code, or when
\* parsing the response fails at any entry.
C14_HistoryAbsorbsFailures ==
    (arg.f = "fetch_30d_daily" /\ ret # None) =>
        LET r == arg.r
            o == Val(ret)
        IN  /\ ~o.raised
            /\ (~r.ok \/ TargetSeries(r) = {} \/ DvParseFailure(r)) => o.history = <<>>

-----------------------------------------------------------------------------
(* C16, C17: the nearest-station match *)

\* C16: on a listing that is not empty the match returns a station, at a
\* distance from the venue that no station of the listing is below, and the
\* first of the listing at that distance; on a listing of one station it
\* returns that station, wherever the venue is.
C16_NearestIsFirstMinimum ==
    (arg.f = "nearest" /\ ret # None /\ arg.listing # <<>>) =>
        LET L == arg.listing
            o == Val(ret)
            d(i) == Val(dist_km(L[i].site, arg.venue.site))
        IN  /\ o.raised = None
            /\ o.index \in 1..Len(L)
            /\ \A j \in 1..Len(L) : d(o.index) <= d(j)
            /\ \A j \in 1..(o.index - 1) : d(j) > d(o.index)
            /\ Len(L) = 1 => o.index = 1

\* C17: on an empty listing the match signals an error, and the loop does
\* not go on to another cycle after it.
C17_EmptyListingIsFatal ==
    (arg.f = "nearest" /\ ret # None /\ arg.listing = <<>>) =>
        /\ Val(ret).raised # None
        /\ Val(ret).pc \notin {"sleep", "get", "venue"}

-----------------------------------------------------------------------------
(* C20: the order of the checks of api_subscribe *)

\* C20: a subscribe whose venue id is absent or empty, or whose email is
\* absent or empty while its venue id is not configured, is answered 400 with
\* the missing-field error; it is answered 404 exactly when the venue id and
\* the email are both given and the venue id is not configured.
C20_FieldsBeforeVenue ==
    (arg.f = "api_subscribe" /\ ret # None) =>
        LET d == arg.data
            o == Val(ret)
        IN  /\ Falsy(d.venue_id) => o.status = 400
            /\ (~Falsy(d.venue_id) /\ Falsy(d.email)
                  /\ Val(d.venue_id) \notin ConfiguredIds) => o.status = 400
            /\ o.status = 400 => o.json = [error |-> "venue_id and email required"]
            /\ o.status = 404 <=> /\ ~Falsy(d.venue_id)
                                   /\ ~Falsy(d.email)
                                   /\ Val(d.venue_id) \notin ConfiguredIds

\* a subscribe with an empty email to a venue that is not configured was
\* answered 400
C20_Witness ==
    /\ arg.f = "api_subscribe" /\ ret # None
    /\ arg.data.venue_id = Some("zoo")
    /\ arg.data.email = Some("")
    /\ Val(ret).status = 400

====
